---------------------------- MODULE Spec2Model ----------------------------
(***************************************************************************)
(* ChunkViz: the chunking engine of src/services/gemini.ts (the file holds *)
(* the semantic adapter, lines 1-111, and the chunkers, lines 112-372) and *)
(* the dispatch of App.runChunking (src/unnamed/part_001).                 *)
(*                                                                         *)
(* A JavaScript string is modelled as the sequence of its UTF-16 code      *)
(* units, each a TLA+ string (an ASCII character stands for itself, any    *)
(* other code unit is named by its code point); s.length is Len(s). A run  *)
(* of the machine is one invocation of a chunker: Init draws the input     *)
(* text and configuration, the loops and the recursion of the code are     *)
(* taken one iteration per step, and pc = "done" is the return.            *)
(* The id field of a Chunk (a tag, the index and Date.now()) is opaque and *)
(* is left out of the Chunk records.                                       *)
(***************************************************************************)
EXTENDS Integers, Sequences, FiniteSets, TLC

VARIABLES
    strategy,      \* ChunkingStrategy chosen by the caller
    text,          \* the input text
    config,        \* ChunkingConfig: chunkSize, chunkOverlap, separators
    pc,            \* position of the invocation
    chunks,        \* the Chunk[] built / returned
    start,         \* generateFixedSizeChunks: let start
    index,         \* generateFixedSizeChunks / generateJsonChunks: let index
    recText,       \* generateRecursiveChunks: its text argument
    ret,           \* who called generateRecursiveChunks
    stack,         \* pending calls of recurse(txt, seps), innermost first
    i,             \* recurse: the hard-split loop counter
    rawSegments,   \* generateRecursiveChunks: rawSegments
    units,         \* generateRecursiveChunks: let chunks (strings)
    currentUnit,   \* generateRecursiveChunks: currentUnit
    segPos,        \* position of the for-of loop over rawSegments
    data,          \* generateJsonChunks: let data (the parsed value)
    resp,          \* generateSemanticChunks: what the provider answered
    error,         \* the Error thrown to the caller, "none" while there is none
    tokens,        \* estimateTokenCount: the number it returned
    appChunks,     \* App: the chunks state (the list on display)
    loading        \* App: the loading state

vars == << strategy, text, config, pc, chunks, start, index, recText, ret,
           stack, i, rawSegments, units, currentUnit, segPos, data, resp,
           error, tokens, appChunks, loading >>

-----------------------------------------------------------------------------
(* Bounds of the model *)

MaxLen == 3        \* longest plain input text
MaxSize == 3       \* largest chunkSize (and chunkOverlap) of the text strategies
MaxItems == 2      \* most elements of a JSON array

-----------------------------------------------------------------------------
(* JavaScript primitives *)

Min(a, b) == IF a < b THEN a ELSE b
Max(a, b) == IF a > b THEN a ELSE b

\* String.prototype.slice(a, b): negative positions count from the end
Slice(s, a, b) ==
    LET len  == Len(s)
        from == IF a < 0 THEN Max(len + a, 0) ELSE Min(a, len)
        to   == IF b < 0 THEN Max(len + b, 0) ELSE Min(b, len)
    IN  IF from < to THEN SubSeq(s, from + 1, to) ELSE << >>

\* String.prototype.slice(a)
SliceFrom(s, a) == Slice(s, a, Len(s))

\* String.prototype.includes(sep)
Includes(txt, sep) ==
    \E k \in 0 .. (Len(txt) - Len(sep)) : SubSeq(txt, k + 1, k + Len(sep)) = sep

\* the pieces of txt between the non-overlapping occurrences of a non-empty
\* sep, found left to right from position from (0-based)
RECURSIVE SplitFrom(_, _, _, _)
SplitFrom(txt, sep, from, cur) ==
    IF cur + Len(sep) > Len(txt)
    THEN << SubSeq(txt, from + 1, Len(txt)) >>
    ELSE IF SubSeq(txt, cur + 1, cur + Len(sep)) = sep
         THEN << SubSeq(txt, from + 1, cur) >>
              \o SplitFrom(txt, sep, cur + Len(sep), cur + Len(sep))
         ELSE SplitFrom(txt, sep, from, cur + 1)

\* String.prototype.split(sep) for a string sep: the empty separator splits
\* into code units (and the empty string into no piece at all)
Split(txt, sep) ==
    IF sep = << >>
    THEN [k \in 1 .. Len(txt) |-> << txt[k] >>]
    ELSE SplitFrom(txt, sep, 0, 0)

IsWhitespace(c) == c \in {" ", "\n", "\t"}

\* String.prototype.trim()
RECURSIVE TrimStart(_)
TrimStart(s) ==
    IF s # << >> /\ IsWhitespace(Head(s)) THEN TrimStart(Tail(s)) ELSE s

RECURSIVE TrimEnd(_)
TrimEnd(s) ==
    IF s # << >> /\ IsWhitespace(s[Len(s)])
    THEN TrimEnd(SubSeq(s, 1, Len(s) - 1)) ELSE s

Trim(s) == TrimEnd(TrimStart(s))

NonBlank_Untrimmed(c) == Len(c) > 0

\* the predicate of the filter of generateRecursiveChunks
NonBlank(c) == Len(Trim(c)) > 0

\* chunks.filter(c => c.trim().length > 0)
RECURSIVE FilterNonBlank(_)
FilterNonBlank(seq) ==
    IF seq = << >> THEN << >>
    ELSE (IF NonBlank(Head(seq)) THEN << Head(seq) >> ELSE << >>)
         \o FilterNonBlank(Tail(seq))

-----------------------------------------------------------------------------
(* estimateTokenCount *)

\* members of the ranges of cjkRegex that the model's texts can hold, by
\* code point: U+4E2D and U+6587 (4e00-9fa5), U+3042 (3040-30ff)
IsCJK(c) == c \in {"U4E2D", "U6587", "U3042"}

CjkCount(s) == Cardinality({k \in 1 .. Len(s) : IsCJK(s[k])})

CeilDiv4_Floor(n) == n \div 4

\* Math.ceil(n / 4) for n >= 0
CeilDiv4(n) == (n + 3) \div 4

estimateTokenCount(s) ==
    LET cjkCount   == CjkCount(s)
        otherCount == Max(0, Len(s) - cjkCount)
    IN  cjkCount + CeilDiv4(otherCount)

MkChunk_TokensOfLength(content, idx) ==
    [ index |-> idx, content |-> content, length |-> Len(content),
      tokenCount |-> Len(content) ]

MkChunk_IndexFromOne(content, idx) ==
    [ index |-> idx + 1, content |-> content, length |-> Len(content),
      tokenCount |-> estimateTokenCount(content) ]

\* the Chunk record built from a content string and an index
MkChunk(content, idx) ==
    [ index |-> idx, content |-> content, length |-> Len(content),
      tokenCount |-> estimateTokenCount(content) ]


-----------------------------------------------------------------------------
(* JSON values, JSON.stringify(value, null, 2) and JSON.parse *)

\* a parsed JSON value: a number or string (its characters in s), an array
\* (its elements in items) or an object (its keys, in insertion order, in
\* keys and the value of keys[k] in items[k])
Num(digits) == [ t |-> "num", s |-> digits, keys |-> << >>, items |-> << >> ]
Str(chars)  == [ t |-> "str", s |-> chars, keys |-> << >>, items |-> << >> ]
Arr(elems)  == [ t |-> "arr", s |-> << >>, keys |-> << >>, items |-> elems ]
Obj(ks, vs) == [ t |-> "obj", s |-> << >>, keys |-> ks, items |-> vs ]

\* let data; before JSON.parse
NoValue == [ t |-> "undefined", s |-> << >>, keys |-> << >>, items |-> << >> ]

Spaces(n) == [ k \in 1 .. n |-> " " ]

Quote(chars) == << "\"" >> \o chars \o << "\"" >>

\* JSON.stringify(v, null, 2) of a value nested at indentation ind: members
\* go one per line, two spaces deeper, separated by commas; the strings of
\* the model need no escapes
RECURSIVE Stringify(_, _)
RECURSIVE StringifyMembers(_, _, _)
StringifyMembers(v, ind, k) ==
    LET member == Spaces(ind + 2)
                  \o (IF v.t = "obj" THEN Quote(v.keys[k]) \o << ":", " " >>
                                      ELSE << >>)
                  \o Stringify(v.items[k], ind + 2)
    IN  IF k = Len(v.items)
        THEN member
        ELSE member \o << ",", "\n" >> \o StringifyMembers(v, ind, k + 1)

Stringify(v, ind) ==
    CASE v.t = "num" -> v.s
      [] v.t = "str" -> Quote(v.s)
      [] v.t = "arr" ->
            IF v.items = << >> THEN << "[", "]" >>
            ELSE << "[", "\n" >> \o StringifyMembers(v, ind, 1)
                 \o << "\n" >> \o Spaces(ind) \o << "]" >>
      [] v.t = "obj" ->
            IF v.items = << >> THEN << "{", "}" >>
            ELSE << "{", "\n" >> \o StringifyMembers(v, ind, 1)
                 \o << "\n" >> \o Spaces(ind) \o << "}" >>

\* JSON.stringify(value, null, 2)
JSONStringify(v) == Stringify(v, 0)

\* the values the model's JSON documents denote
JsonScalars ==
    { Num(<< "1" >>), Num(<< "2", "2" >>), Str(<< "a", " ", "a", "a" >>) }

JsonElements == JsonScalars \cup { Arr(<< Num(<< "1" >>) >>) }

JsonArrays ==
    { Arr(e) : e \in UNION { [1 .. n -> JsonElements] : n \in 0 .. MaxItems } }

\* the key "__proto__": JSON.parse makes it an own property like any other
ProtoKey == << "_", "_", "p", "r", "o", "t", "o", "_", "_" >>

JsonKeys == { << "k" >>, << "m" >>, ProtoKey }

JsonObjects ==
    { Obj(<< >>, << >>) }
    \cup { Obj(<< k >>, << v >>) : k \in JsonKeys, v \in JsonElements }
    \cup { Obj(<< ks[1], ks[2] >>, << vs[1], vs[2] >>) :
             ks \in { q \in [1 .. 2 -> JsonKeys] : q[1] # q[2] },
             vs \in [1 .. 2 -> JsonScalars] }

JsonValues == JsonScalars \cup JsonArrays \cup JsonObjects

\* JSON.parse(t) on the model's documents: the value whose serialization t
\* is, or a SyntaxError (ok = FALSE) when t is the serialization of none
JSONParse(t) ==
    IF \E v \in JsonValues : JSONStringify(v) = t
    THEN [ ok |-> TRUE,
           value |-> CHOOSE v \in JsonValues : JSONStringify(v) = t ]
    ELSE [ ok |-> FALSE, value |-> NoValue ]

-----------------------------------------------------------------------------
(* Inputs *)

Chars == {"a", " ", "."}

Texts == UNION { [1 .. n -> Chars] : n \in 0 .. MaxLen }

SepLists ==
    { << >>,
      << <<".">> >>, << <<" ">> >>, << << >> >>,
      << <<".">>, <<" ">> >>, << <<".", " ">>, <<".">> >>,
      << <<" ">>, << >> >>, << <<"a">>, <<".">>, << >> >> }

MarkdownSepLists == { << <<".", " ">>, <<" ">> >>, << <<".">> >> }

Sizes == 0 .. MaxSize
Overlaps == 0 .. MaxSize

\* the semantic-provider fields of a config the text strategies ignore
\* (PRESETS: provider 'google', the rest empty); envKey is process.env.API_KEY
NoProvider ==
    [ provider |-> "google", apiKey |-> << >>, envKey |-> << >>,
      baseUrl |-> << >>, semanticModel |-> << >> ]

WithProvider(c, p) ==
    [ chunkSize |-> c.chunkSize, chunkOverlap |-> c.chunkOverlap,
      separators |-> c.separators, provider |-> p.provider,
      apiKey |-> p.apiKey, envKey |-> p.envKey, baseUrl |-> p.baseUrl,
      semanticModel |-> p.semanticModel ]

TextConfigs(seplists) ==
    { WithProvider(c, NoProvider) :
        c \in [ chunkSize : Sizes, chunkOverlap : Overlaps,
                separators : seplists ] }

\* a field the user left empty or filled in
Field == { << >>, << "x" >> }

Providers ==
    [ provider : {"google", "custom"}, apiKey : Field, envKey : Field,
      baseUrl : Field, semanticModel : Field ]

\* PRESETS.semantic: chunkSize 0, chunkOverlap 0, no separators
SemanticConfigs ==
    { WithProvider([ chunkSize |-> 0, chunkOverlap |-> 0,
                     separators |-> << >> ], p) : p \in Providers }

\* what the response text (markdown fences removed) parses to
SemanticValues ==
    { Arr(<< >>),
      Arr(<< Str(<< "a" >>) >>),
      Arr(<< Str(<< "a", "." >>), Str(<< " " >>), Str(<< "a" >>) >>),
      Arr(<< Str(<< "U4E2D", "a" >>), Str(<< "UD83D", "UDE00" >>) >>),
      Arr(<< Str(<< "a" >>), Num(<< "1" >>) >>),
      Num(<< "1" >>),
      Str(<< "a" >>),
      Obj(<< << "k" >> >>, << Str(<< "a" >>) >>) }

\* a provider's answer: the request is rejected (no answer), or answered
\* with an HTTP status that is OK or not and a response text that is
\* empty, not JSON, or JSON for value
NoResponse ==
    [ transport |-> "none", ok |-> FALSE, body |-> "empty", value |-> NoValue ]

Responses ==
    { [ transport |-> "rejected", ok |-> FALSE, body |-> "empty",
        value |-> NoValue ],
      [ transport |-> "answered", ok |-> FALSE, body |-> "garbage",
        value |-> NoValue ],
      [ transport |-> "answered", ok |-> TRUE, body |-> "empty",
        value |-> NoValue ],
      [ transport |-> "answered", ok |-> TRUE, body |-> "garbage",
        value |-> NoValue ] }
    \cup { [ transport |-> "answered", ok |-> TRUE, body |-> "json",
             value |-> v ] : v \in SemanticValues }

\* texts that are not JSON, the longer ones above the smallest budget
InvalidJsonTexts ==
    { t \in Texts : Len(t) = MaxLen /\ t[1] = "a" }
    \cup { t \in [ 1 .. MaxLen + 1 -> Chars ] : t[1] = "a" }

JsonTexts == { JSONStringify(v) : v \in JsonValues } \cup InvalidJsonTexts

\* serialized-character budgets around the sizes of the model's documents
JsonSizes == {0} \cup { k * MaxSize : k \in 1 .. 4 }

JsonConfigs ==
    { WithProvider(c, NoProvider) :
        c \in [ chunkSize : JsonSizes, chunkOverlap : {0, 1},
                separators : { << >>, << << " " >> >> } ] }

\* the cap on what a loop over t may emit in the model: a loop that advances
\* over t ends before it; a loop that never advances runs on in the code and
\* stops here
EmitCap(t) == Len(t) + 2

-----------------------------------------------------------------------------
(* Init: the state when the caller has chosen strategy, text and config *)

\* the locals of a call before it starts
CallLocals ==
    /\ chunks = << >>
    /\ start = 0
    /\ index = 0
    /\ recText = << >>
    /\ ret = "none"
    /\ stack = << >>
    /\ i = 0
    /\ rawSegments = << >>
    /\ units = << >>
    /\ currentUnit = << >>
    /\ segPos = 0
    /\ data = NoValue
    /\ resp = NoResponse
    /\ error = "none"
    /\ tokens = 0

InitLocals ==
    /\ pc = "start"
    /\ CallLocals
    /\ appChunks = << >>
    /\ loading = FALSE

InitFixed ==
    /\ strategy = "fixed"
    /\ text \in Texts
    /\ config \in TextConfigs({<< >>})

InitRecursive ==
    /\ strategy = "recursive"
    /\ text \in Texts
    /\ config \in TextConfigs(SepLists)

InitMarkdown ==
    /\ strategy = "markdown"
    /\ text \in Texts
    /\ config \in TextConfigs(MarkdownSepLists)

InitJson ==
    /\ strategy = "json"
    /\ text \in JsonTexts
    /\ config \in JsonConfigs

InitSemantic ==
    /\ strategy = "semantic"
    /\ text \in { t \in Texts : Len(t) = MaxLen /\ t[1] = "a" /\ t[2] = "." }
    /\ config \in SemanticConfigs

Init ==
    /\ InitLocals
    /\ \/ InitFixed
       \/ InitRecursive
       \/ InitMarkdown
       \/ InitJson
       \/ InitSemantic

-----------------------------------------------------------------------------
(* generateFixedSizeChunks *)

EffectiveOverlap_Unclamped(chunkOverlap, chunkSize) == chunkOverlap

\* const effectiveOverlap = Math.min(chunkOverlap, chunkSize - 1)
EffectiveOverlap(chunkOverlap, chunkSize) == Min(chunkOverlap, chunkSize - 1)

FixedStep_IgnoresOverlap(chunkSize, chunkOverlap) == chunkSize

\* const step = chunkSize - effectiveOverlap
FixedStep(chunkSize, chunkOverlap) ==
    chunkSize - EffectiveOverlap(chunkOverlap, chunkSize)

WindowEnd_OneTooFar(from, chunkSize, len) == Min(from + chunkSize + 1, len)

\* const end = Math.min(start + chunkSize, text.length)
WindowEnd(from, chunkSize, len) == Min(from + chunkSize, len)

\* if (chunkSize <= 0) return [];
FixedGuardReturn ==
    /\ pc = "start" /\ strategy = "fixed"
    /\ config.chunkSize <= 0
    /\ chunks' = << >>
    /\ pc' = "done"
    /\ UNCHANGED << tokens, appChunks, loading,
                    resp, error, data, strategy, text, config, start, index,
                    recText, ret, stack,
                    i, rawSegments, units, currentUnit, segPos >>

FixedStart ==
    /\ pc = "start" /\ strategy = "fixed"
    /\ ~(config.chunkSize <= 0)
    /\ chunks' = << >>
    /\ start' = 0
    /\ index' = 0
    /\ pc' = "fixedLoop"
    /\ UNCHANGED << tokens, appChunks, loading,
                    resp, error, data, strategy, text, config, recText, ret,
                    stack, i,
                    rawSegments, units, currentUnit, segPos >>

\* one iteration of while (start < text.length)
FixedIter ==
    /\ pc = "fixedLoop"
    /\ start < Len(text)
    /\ Len(chunks) < EmitCap(text)
    /\ LET end     == WindowEnd(start, config.chunkSize, Len(text))
           content == Slice(text, start, end)
       IN  chunks' = Append(chunks, MkChunk(content, index))
    /\ start' = start + FixedStep(config.chunkSize, config.chunkOverlap)
    /\ index' = index + 1
    /\ UNCHANGED << tokens, appChunks, loading,
                    resp, error, data, strategy, text, config, pc, recText,
                    ret, stack, i,
                    rawSegments, units, currentUnit, segPos >>

FixedReturn ==
    /\ pc = "fixedLoop"
    /\ ~(start < Len(text))
    /\ pc' = "done"
    /\ UNCHANGED << tokens, appChunks, loading,
                    resp, error, data, strategy, text, config, chunks, start,
                    index, recText,
                    ret, stack, i, rawSegments, units, currentUnit, segPos >>

\* the contents generateFixedSizeChunks returns for chunkSize >= 1, as a
\* function of its arguments (the loop from start = from on)
RECURSIVE FixedWindows(_, _, _, _)
FixedWindows(t, chunkSize, chunkOverlap, from) ==
    IF from < Len(t)
    THEN << Slice(t, from, WindowEnd(from, chunkSize, Len(t))) >>
         \o FixedWindows(t, chunkSize, chunkOverlap,
                         from + FixedStep(chunkSize, chunkOverlap))
    ELSE << >>

-----------------------------------------------------------------------------
(* generateRecursiveChunks, Phase A: recurse *)

Frame(txt, seps, depth) == [ txt |-> txt, seps |-> seps, depth |-> depth ]

\* the call recurse(text, separators) of line 262, on entry of the function
EnterRecursive(t, caller) ==
    /\ recText' = t
    /\ ret' = caller
    /\ stack' = << Frame(t, config.separators, 1) >>
    /\ rawSegments' = << >>
    /\ units' = << >>
    /\ currentUnit' = << >>
    /\ i' = 0
    /\ segPos' = 0
    /\ pc' = "recurse"

RecursiveStart ==
    /\ pc = "start" /\ strategy = "recursive"
    /\ EnterRecursive(text, "recursive")
    /\ UNCHANGED << tokens, appChunks, loading,
                    resp, error, data, strategy, text, config, chunks, start,
                    index >>

\* generateMarkdownChunks: return generateRecursiveChunks(text, config)
MarkdownStart ==
    /\ pc = "start" /\ strategy = "markdown"
    /\ EnterRecursive(text, "recursive")
    /\ UNCHANGED << tokens, appChunks, loading,
                    resp, error, data, strategy, text, config, chunks, start,
                    index >>

Top == Head(stack)

HardStep_OneShort(chunkSize, chunkOverlap) == chunkSize - chunkOverlap - 1

\* the step of the hard-split loop: i += (chunkSize - chunkOverlap)
HardStep(chunkSize, chunkOverlap) == chunkSize - chunkOverlap

\* if (txt.length <= chunkSize) { rawSegments.push(txt); return; }
RecurseEmit ==
    /\ pc = "recurse" /\ stack # << >>
    /\ Len(Top.txt) <= config.chunkSize
    /\ rawSegments' = Append(rawSegments, Top.txt)
    /\ stack' = Tail(stack)
    /\ UNCHANGED << tokens, appChunks, loading,
                    resp, error, data, strategy, text, config, pc, chunks,
                    start, index, recText,
                    ret, i, units, currentUnit, segPos >>

\* if (seps.length === 0): enter the hard-split loop with i = 0
HardSplitStart ==
    /\ pc = "recurse" /\ stack # << >>
    /\ ~(Len(Top.txt) <= config.chunkSize)
    /\ Len(Top.seps) = 0
    /\ i' = 0
    /\ pc' = "hard"
    /\ UNCHANGED << tokens, appChunks, loading,
                    resp, error, data, strategy, text, config, chunks, start,
                    index, recText,
                    ret, stack, rawSegments, units, currentUnit, segPos >>

\* one iteration of for (let i = 0; i < txt.length; i += chunkSize - chunkOverlap)
HardSplitIter ==
    /\ pc = "hard"
    /\ i < Len(Top.txt)
    /\ Len(rawSegments) < EmitCap(recText)
    /\ rawSegments' = Append(rawSegments,
                             Slice(Top.txt, i, i + config.chunkSize))
    /\ i' = i + HardStep(config.chunkSize, config.chunkOverlap)
    /\ UNCHANGED << tokens, appChunks, loading,
                    resp, error, data, strategy, text, config, pc, chunks,
                    start, index, recText,
                    ret, stack, units, currentUnit, segPos >>

\* the loop ends and recurse returns
HardSplitReturn ==
    /\ pc = "hard"
    /\ ~(i < Len(Top.txt))
    /\ stack' = Tail(stack)
    /\ pc' = "recurse"
    /\ UNCHANGED << tokens, appChunks, loading,
                    resp, error, data, strategy, text, config, chunks, start,
                    index, recText,
                    ret, i, rawSegments, units, currentUnit, segPos >>

PartsWithSep_SeparatorDropped(txt, sep) == Split(txt, sep)

\* the pieces handed to recurse by parts.forEach: the separator is put back
\* on every piece but the last
PartsWithSep(txt, sep) ==
    LET parts == Split(txt, sep)
    IN  [ idx \in 1 .. Len(parts) |->
            IF idx - 1 < Len(parts) - 1 THEN parts[idx] \o sep
                                        ELSE parts[idx] ]

\* if (txt.includes(sep)): recurse on each piece, in order, with nextSeps
RecurseSplit ==
    /\ pc = "recurse" /\ stack # << >>
    /\ ~(Len(Top.txt) <= config.chunkSize)
    /\ Len(Top.seps) # 0
    /\ LET sep      == Top.seps[1]
           nextSeps == Tail(Top.seps)
       IN  /\ Includes(Top.txt, sep)
           /\ LET pieces == PartsWithSep(Top.txt, sep)
              IN  stack' = [ k \in 1 .. Len(pieces) |->
                              Frame(pieces[k], nextSeps, Top.depth + 1) ]
                           \o Tail(stack)
    /\ UNCHANGED << tokens, appChunks, loading,
                    resp, error, data, strategy, text, config, pc, chunks,
                    start, index, recText,
                    ret, i, rawSegments, units, currentUnit, segPos >>

RecurseSkip_SameSeparators ==
    /\ pc = "recurse" /\ stack # << >>
    /\ ~(Len(Top.txt) <= config.chunkSize)
    /\ Len(Top.seps) # 0
    /\ ~Includes(Top.txt, Top.seps[1])
    /\ stack' = << Frame(Top.txt, Top.seps, Top.depth + 1) >> \o Tail(stack)
    /\ UNCHANGED << tokens, appChunks, loading, resp, error, data, strategy,
                    text, config, pc, chunks, start, index, recText, ret, i,
                    rawSegments, units, currentUnit, segPos >>

\* else recurse(txt, nextSeps)
RecurseSkip ==
    /\ pc = "recurse" /\ stack # << >>
    /\ ~(Len(Top.txt) <= config.chunkSize)
    /\ Len(Top.seps) # 0
    /\ ~Includes(Top.txt, Top.seps[1])
    /\ stack' = << Frame(Top.txt, Tail(Top.seps), Top.depth + 1) >>
                 \o Tail(stack)
    /\ UNCHANGED << tokens, appChunks, loading,
                    resp, error, data, strategy, text, config, pc, chunks,
                    start, index, recText,
                    ret, i, rawSegments, units, currentUnit, segPos >>

-----------------------------------------------------------------------------
(* generateRecursiveChunks, Phase B: repacking *)

\* recurse(text, separators) has returned: let chunks = [], currentUnit = ""
PackStart ==
    /\ pc = "recurse" /\ stack = << >>
    /\ units' = << >>
    /\ currentUnit' = << >>
    /\ segPos' = 1
    /\ pc' = "pack"
    /\ UNCHANGED << tokens, appChunks, loading,
                    resp, error, data, strategy, text, config, chunks, start,
                    index, recText,
                    ret, stack, i, rawSegments >>

PackSegment_CarriesUnit ==
    /\ pc = "pack"
    /\ segPos <= Len(rawSegments)
    /\ LET segment == rawSegments[segPos]
           close   == /\ Len(currentUnit) + Len(segment) > config.chunkSize
                      /\ Len(currentUnit) > 0
       IN  /\ units' = IF close THEN Append(units, currentUnit) ELSE units
           /\ currentUnit' = currentUnit \o segment
    /\ segPos' = segPos + 1
    /\ UNCHANGED << tokens, appChunks, loading, resp, error, data, strategy,
                    text, config, pc, chunks, start, index, recText, ret,
                    stack, i, rawSegments >>

\* one iteration of for (const segment of rawSegments)
PackSegment ==
    /\ pc = "pack"
    /\ segPos <= Len(rawSegments)
    /\ LET segment == rawSegments[segPos]
           close   == /\ Len(currentUnit) + Len(segment) > config.chunkSize
                      /\ Len(currentUnit) > 0
           overlapStart == Max(0, Len(currentUnit) - config.chunkOverlap)
       IN  /\ units' = IF close THEN Append(units, currentUnit) ELSE units
           /\ currentUnit' =
                 (IF close THEN SliceFrom(currentUnit, overlapStart)
                           ELSE currentUnit) \o segment
    /\ segPos' = segPos + 1
    /\ UNCHANGED << tokens, appChunks, loading,
                    resp, error, data, strategy, text, config, pc, chunks,
                    start, index, recText,
                    ret, stack, i, rawSegments >>

\* if (currentUnit.length > 0) chunks.push(currentUnit)
FinalUnits ==
    IF Len(currentUnit) > 0 THEN Append(units, currentUnit) ELSE units

\* .map((c, i) => ({ index: i, content: c, ... }))
MapChunks(strs) == [ k \in 1 .. Len(strs) |-> MkChunk(strs[k], k - 1) ]

\* the content fields of a Chunk[]
Contents(cs) == [ k \in 1 .. Len(cs) |-> cs[k].content ]

\* the value generateRecursiveChunks returns
RecursiveResult == MapChunks(FilterNonBlank(FinalUnits))

RecursiveReturn ==
    /\ pc = "pack"
    /\ ~(segPos <= Len(rawSegments))
    /\ ret = "recursive"
    /\ units' = FinalUnits
    /\ chunks' = RecursiveResult
    /\ pc' = "done"
    /\ UNCHANGED << tokens, appChunks, loading,
                    resp, error, data, strategy, text, config, start, index,
                    recText, ret, stack,
                    i, rawSegments, currentUnit, segPos >>

-----------------------------------------------------------------------------
(* generateRecursiveChunks as a function of its arguments *)

\* the segments the hard-split loop pushes from i = from on
RECURSIVE HardSegments(_, _, _)
HardSegments(txt, from, c) ==
    IF from < Len(txt)
    THEN << Slice(txt, from, from + c.chunkSize) >>
         \o HardSegments(txt, from + HardStep(c.chunkSize, c.chunkOverlap), c)
    ELSE << >>

\* the segments recurse(txt, seps) pushes, in order
RECURSIVE recurse(_, _, _)
recurse(txt, seps, c) ==
    IF Len(txt) <= c.chunkSize THEN << txt >>
    ELSE IF Len(seps) = 0 THEN HardSegments(txt, 0, c)
    ELSE IF Includes(txt, seps[1])
         THEN LET pieces == PartsWithSep(txt, seps[1])
                  RECURSIVE each(_)
                  each(k) == IF k > Len(pieces) THEN << >>
                             ELSE recurse(pieces[k], Tail(seps), c)
                                  \o each(k + 1)
              IN  each(1)
         ELSE recurse(txt, Tail(seps), c)

\* Phase B from segment k on, with the chunks closed so far and currentUnit
RECURSIVE Repack(_, _, _, _, _)
Repack(segs, k, closed, cur, c) ==
    IF k > Len(segs)
    THEN IF Len(cur) > 0 THEN Append(closed, cur) ELSE closed
    ELSE LET segment == segs[k]
             close   == /\ Len(cur) + Len(segment) > c.chunkSize
                        /\ Len(cur) > 0
             overlapStart == Max(0, Len(cur) - c.chunkOverlap)
         IN  Repack(segs, k + 1,
                    IF close THEN Append(closed, cur) ELSE closed,
                    (IF close THEN SliceFrom(cur, overlapStart) ELSE cur)
                        \o segment,
                    c)

generateRecursiveChunks(t, c) ==
    MapChunks(FilterNonBlank(
        Repack(recurse(t, c.separators, c), 1, << >>, << >>, c)))

-----------------------------------------------------------------------------
(* generateJsonChunks *)

\* addChunk(content) for each string of contents in turn, index counting on
\* from from
AddChunks(cs, contents, from) ==
    cs \o [ k \in 1 .. Len(contents) |-> MkChunk(contents[k], from + k - 1) ]

JsonParseFallback_Trimmed ==
    /\ pc = "start" /\ strategy = "json"
    /\ ~JSONParse(text).ok
    /\ EnterRecursive(Trim(text), "recursive")
    /\ UNCHANGED << tokens, appChunks, loading,
                    resp, error, data, strategy, text, config, chunks, start,
                    index >>

\* catch (e) { return generateRecursiveChunks(text, config); }
JsonParseFallback ==
    /\ pc = "start" /\ strategy = "json"
    /\ ~JSONParse(text).ok
    /\ EnterRecursive(text, "recursive")
    /\ UNCHANGED << tokens, appChunks, loading,
                    resp, error, data, strategy, text, config, chunks, start,
                    index >>

\* data = JSON.parse(text); const chunks = []; let index = 0
JsonParsed ==
    /\ pc = "start" /\ strategy = "json"
    /\ JSONParse(text).ok
    /\ data' = JSONParse(text).value
    /\ chunks' = << >>
    /\ index' = 0
    /\ pc' = "processValue"
    /\ UNCHANGED << tokens, appChunks, loading,
                    resp, error, strategy, text, config, start, recText, ret,
                    stack, i,
                    rawSegments, units, currentUnit, segPos >>

Fits(v) == Len(JSONStringify(v)) <= config.chunkSize

\* if (jsonStr.length <= config.chunkSize) { addChunk(jsonStr); return; }
ProcessWhole ==
    /\ pc = "processValue"
    /\ Fits(data)
    /\ chunks' = AddChunks(chunks, << JSONStringify(data) >>, index)
    /\ index' = index + 1
    /\ pc' = "done"
    /\ UNCHANGED << tokens, appChunks, loading,
                    resp, error, data, strategy, text, config, start, recText,
                    ret, stack,
                    i, rawSegments, units, currentUnit, segPos >>

\* the per-item allowance of both batching loops
ItemOverhead == 2

\* the size an object batch starts from: let currentSize = 2; // {}
ObjectBaseSize == 2

\* propStr = `"${k}": ${JSON.stringify(v, null, 2)}`
PropStr(k, v) == Quote(k) \o << ":", " " >> \o JSONStringify(v)

MemberSize_Uncounted(v, k) == 0

\* the size the loops count for member k of v
MemberSize(v, k) ==
    IF v.t = "obj" THEN Len(PropStr(v.keys[k], v.items[k]))
                   ELSE Len(JSONStringify(v.items[k]))

\* an empty batch of the kind of v
EmptyBatch(v) == [ v EXCEPT !.keys = << >>, !.items = << >> ]

\* currentBatch.push(item) / currentObj[k] = v. On the plain object
\* currentObj the assignment to the key "__proto__" goes to the setter of
\* Object.prototype and adds no own property.
BatchPush(b, v, k) ==
    IF v.t = "obj" /\ v.keys[k] = ProtoKey
    THEN b
    ELSE [ b EXCEPT !.items = Append(@, v.items[k]),
                    !.keys = IF v.t = "obj" THEN Append(@, v.keys[k])
                                            ELSE @ ]

\* the for-of loop over the members of v from member k on, with the batch
\* and the size counted so far; out collects the serialized batches, the
\* trailing batch included
RECURSIVE BatchLoop(_, _, _, _, _, _)
BatchLoop(v, k, batch, currentSize, baseSize, out) ==
    IF k > Len(v.items)
    THEN IF Len(batch.items) > 0 THEN Append(out, JSONStringify(batch))
                                 ELSE out
    ELSE LET size  == MemberSize(v, k)
             flush == /\ currentSize + size + ItemOverhead > config.chunkSize
                      /\ Len(batch.items) > 0
         IN  IF flush
             THEN BatchLoop(v, k + 1, BatchPush(EmptyBatch(v), v, k),
                            baseSize + size + ItemOverhead, baseSize,
                            Append(out, JSONStringify(batch)))
             ELSE BatchLoop(v, k + 1, BatchPush(batch, v, k),
                            currentSize + size + ItemOverhead, baseSize, out)

\* if (Array.isArray(value)): batches of items, currentSize from 0
ProcessArray ==
    /\ pc = "processValue"
    /\ ~Fits(data)
    /\ data.t = "arr"
    /\ LET contents == BatchLoop(data, 1, EmptyBatch(data), 0, 0, << >>)
       IN  /\ chunks' = AddChunks(chunks, contents, index)
           /\ index' = index + Len(contents)
    /\ pc' = "done"
    /\ UNCHANGED << tokens, appChunks, loading,
                    resp, error, data, strategy, text, config, start, recText,
                    ret, stack,
                    i, rawSegments, units, currentUnit, segPos >>

\* if (typeof value === 'object' && value !== null): batches of properties
ProcessObject ==
    /\ pc = "processValue"
    /\ ~Fits(data)
    /\ data.t = "obj"
    /\ LET contents == BatchLoop(data, 1, EmptyBatch(data), ObjectBaseSize,
                                 ObjectBaseSize, << >>)
       IN  /\ chunks' = AddChunks(chunks, contents, index)
           /\ index' = index + Len(contents)
    /\ pc' = "done"
    /\ UNCHANGED << tokens, appChunks, loading,
                    resp, error, data, strategy, text, config, start, recText,
                    ret, stack,
                    i, rawSegments, units, currentUnit, segPos >>

\* a scalar over the budget: generateRecursiveChunks(jsonStr, config)
ProcessScalar ==
    /\ pc = "processValue"
    /\ ~Fits(data)
    /\ data.t \notin {"arr", "obj"}
    /\ EnterRecursive(JSONStringify(data), "json")
    /\ UNCHANGED << tokens, appChunks, loading,
                    resp, error, data, strategy, text, config, chunks, start,
                    index >>

\* recursiveChunks.forEach(c => addChunk(c.content))
ScalarRewrap ==
    /\ pc = "pack"
    /\ ~(segPos <= Len(rawSegments))
    /\ ret = "json"
    /\ units' = FinalUnits
    /\ chunks' = AddChunks(chunks, Contents(RecursiveResult), index)
    /\ index' = index + Len(RecursiveResult)
    /\ pc' = "done"
    /\ UNCHANGED << tokens, appChunks, loading,
                    resp, error, data, strategy, text, config, start, recText,
                    ret, stack,
                    i, rawSegments, currentUnit, segPos >>

-----------------------------------------------------------------------------
(* generateSemanticChunks *)

\* JavaScript truthiness of a string
Truthy(str) == Len(str) > 0

\* the credentials each branch checks before it sends anything
CredentialsPresent ==
    IF config.provider = "google"
    THEN Truthy(config.apiKey) \/ Truthy(config.envKey)
    ELSE Truthy(config.apiKey) /\ Truthy(config.baseUrl)
         /\ Truthy(config.semanticModel)

\* the catch block: every error caught is thrown on to the caller
Throw(kind) ==
    /\ error' = kind
    /\ pc' = "thrown"

\* if (!key) throw ... / if (!apiKey) ... if (!baseUrl) ... if (!semanticModel)
SemanticMissingCredentials ==
    /\ pc = "start" /\ strategy = "semantic"
    /\ ~CredentialsPresent
    /\ Throw("credentials")
    /\ UNCHANGED << tokens, appChunks, loading,
                    resp, data, strategy, text, config, chunks, start, index,
                    recText, ret, stack, i, rawSegments, units, currentUnit,
                    segPos >>

\* await ai.models.generateContent(...) / await fetch(url, ...)
SemanticRequest ==
    /\ pc = "start" /\ strategy = "semantic"
    /\ CredentialsPresent
    /\ resp' \in Responses
    /\ pc' = "response"
    /\ UNCHANGED << tokens, appChunks, loading,
                    error, data, strategy, text, config, chunks, start, index,
                    recText, ret, stack, i, rawSegments, units, currentUnit,
                    segPos >>

\* the await rejects, or if (!response.ok) throw (the SDK of the google
\* branch rejects on a status that is not OK)
SemanticTransportFailure ==
    /\ pc = "response"
    /\ resp.transport = "rejected" \/ ~resp.ok
    /\ Throw("transport")
    /\ UNCHANGED << tokens, appChunks, loading,
                    resp, data, strategy, text, config, chunks, start, index,
                    recText, ret, stack, i, rawSegments, units, currentUnit,
                    segPos >>

\* if (!jsonText) throw ... / if (!content) throw ...
SemanticEmptyResponse ==
    /\ pc = "response"
    /\ resp.transport = "answered" /\ resp.ok
    /\ resp.body = "empty"
    /\ Throw("empty")
    /\ UNCHANGED << tokens, appChunks, loading,
                    resp, data, strategy, text, config, chunks, start, index,
                    recText, ret, stack, i, rawSegments, units, currentUnit,
                    segPos >>

\* rawChunks = JSON.parse(...) throws a SyntaxError
SemanticUnparsable ==
    /\ pc = "response"
    /\ resp.transport = "answered" /\ resp.ok
    /\ resp.body = "garbage"
    /\ Throw("syntax")
    /\ UNCHANGED << tokens, appChunks, loading,
                    resp, data, strategy, text, config, chunks, start, index,
                    recText, ret, stack, i, rawSegments, units, currentUnit,
                    segPos >>

IsStringArray(v) ==
    v.t = "arr" /\ \A k \in 1 .. Len(v.items) : v.items[k].t = "str"

\* rawChunks.map(...) on a value that is no array, or estimateTokenCount on
\* an element that is no string, throws a TypeError inside the try
SemanticNotStrings ==
    /\ pc = "response"
    /\ resp.transport = "answered" /\ resp.ok
    /\ resp.body = "json"
    /\ ~IsStringArray(resp.value)
    /\ Throw("type")
    /\ UNCHANGED << tokens, appChunks, loading,
                    resp, data, strategy, text, config, chunks, start, index,
                    recText, ret, stack, i, rawSegments, units, currentUnit,
                    segPos >>

\* return rawChunks.map((content, index) => ({ index, content, ... }))
SemanticWrap ==
    /\ pc = "response"
    /\ resp.transport = "answered" /\ resp.ok
    /\ resp.body = "json"
    /\ IsStringArray(resp.value)
    /\ chunks' = MapChunks([ k \in 1 .. Len(resp.value.items) |->
                               resp.value.items[k].s ])
    /\ pc' = "done"
    /\ UNCHANGED << tokens, appChunks, loading,
                    resp, error, data, strategy, text, config, start, index,
                    recText, ret, stack, i, rawSegments, units, currentUnit,
                    segPos >>

-----------------------------------------------------------------------------

Next ==
    \/ FixedGuardReturn
    \/ FixedStart
    \/ FixedIter
    \/ FixedReturn
    \/ RecursiveStart
    \/ MarkdownStart
    \/ RecurseEmit
    \/ HardSplitStart
    \/ HardSplitIter
    \/ HardSplitReturn
    \/ RecurseSplit
    \/ RecurseSkip
    \/ PackStart
    \/ PackSegment
    \/ RecursiveReturn
    \/ JsonParseFallback
    \/ JsonParsed
    \/ ProcessWhole
    \/ ProcessArray
    \/ ProcessObject
    \/ ProcessScalar
    \/ ScalarRewrap
    \/ SemanticMissingCredentials
    \/ SemanticRequest
    \/ SemanticTransportFailure
    \/ SemanticEmptyResponse
    \/ SemanticUnparsable
    \/ SemanticNotStrings
    \/ SemanticWrap

Spec == Init /\ [][Next]_vars

\* every step is a step of one synchronous call: the call keeps running
FairSpec == Spec /\ WF_vars(Next)

Done == pc = "done"

\* chunkFixed alone: the runs of generateFixedSizeChunks
FixedInit == InitLocals /\ InitFixed

FixedNext ==
    \/ FixedGuardReturn
    \/ FixedStart
    \/ FixedIter
    \/ FixedReturn

FixedFairSpec == FixedInit /\ [][FixedNext]_vars /\ WF_vars(FixedNext)

\* App.runChunking around a call of chunkFixed or of the semantic chunker.
\* The list on display before the run is empty or what an earlier run left.
EarlierLists == { << >>, MapChunks(<< << "a", "." >>, << "a" >> >>) }

AppInit ==
    /\ pc = "idle"
    /\ CallLocals
    /\ appChunks \in EarlierLists
    /\ loading = FALSE
    /\ \/ InitFixed
       \/ InitSemantic
       \/ /\ strategy = "semantic"
          /\ text \in { << >>, << " " >> }
          /\ config \in SemanticConfigs

\* if (!inputText.trim()) return;
AppBlankReturn ==
    /\ pc = "idle"
    /\ Len(Trim(text)) = 0
    /\ pc' = "returned"
    /\ UNCHANGED << tokens, appChunks, loading, resp, error, data, strategy,
                    text, config, chunks, start, index, recText, ret, stack,
                    i, rawSegments, units, currentUnit, segPos >>

\* setLoading(true); ... switch (strategy): the chunker is called
AppRun ==
    /\ pc = "idle"
    /\ ~(Len(Trim(text)) = 0)
    /\ loading' = TRUE
    /\ pc' = "start"
    /\ UNCHANGED << tokens, appChunks, resp, error, data, strategy, text,
                    config, chunks, start, index, recText, ret, stack, i,
                    rawSegments, units, currentUnit, segPos >>

\* setChunks(result); finally { setLoading(false) }
AppSetChunks ==
    /\ pc = "done"
    /\ appChunks' = chunks
    /\ loading' = FALSE
    /\ pc' = "shown"
    /\ UNCHANGED << tokens, resp, error, data, strategy, text, config, chunks,
                    start, index, recText, ret, stack, i, rawSegments, units,
                    currentUnit, segPos >>

AppCatch_ClearsChunks ==
    /\ pc = "thrown"
    /\ appChunks' = << >>
    /\ loading' = FALSE
    /\ pc' = "alerted"
    /\ UNCHANGED << tokens, resp, error, data, strategy, text, config, chunks,
                    start, index, recText, ret, stack, i, rawSegments, units,
                    currentUnit, segPos >>

\* catch (error) { console.error(...); alert(...) } finally
\* { setLoading(false) }
AppCatch ==
    /\ pc = "thrown"
    /\ loading' = FALSE
    /\ pc' = "alerted"
    /\ UNCHANGED << tokens, appChunks, resp, error, data, strategy, text,
                    config, chunks, start, index, recText, ret, stack, i,
                    rawSegments, units, currentUnit, segPos >>

AppNext ==
    \/ AppBlankReturn
    \/ AppRun
    \/ FixedGuardReturn
    \/ FixedStart
    \/ FixedIter
    \/ FixedReturn
    \/ SemanticMissingCredentials
    \/ SemanticRequest
    \/ SemanticTransportFailure
    \/ SemanticEmptyResponse
    \/ SemanticUnparsable
    \/ SemanticNotStrings
    \/ SemanticWrap
    \/ AppSetChunks
    \/ AppCatch

AppSpec == AppInit /\ [][AppNext]_vars

\* estimateTokenCount alone, on texts of letters, CJK characters and the two
\* halves of a character outside the Basic Multilingual Plane (U+1F600)
TokenChars == {"a", "b", "c", "d", "U4E2D", "U6587", "UD83D", "UDE00"}

TokenTexts == UNION { [ 1 .. n -> TokenChars ] : n \in 0 .. MaxLen + 1 }

TokenInit ==
    /\ InitLocals
    /\ strategy = "estimate"
    /\ text \in TokenTexts
    /\ config = WithProvider([ chunkSize |-> 0, chunkOverlap |-> 0,
                               separators |-> << >> ], NoProvider)

\* estimateTokenCount(text) returns
EstimateTokens ==
    /\ pc = "start" /\ strategy = "estimate"
    /\ tokens' = estimateTokenCount(text)
    /\ pc' = "done"
    /\ UNCHANGED << appChunks, loading, resp, error, data, strategy, text,
                    config, chunks, start, index, recText, ret, stack, i,
                    rawSegments, units, currentUnit, segPos >>

TokenNext == EstimateTokens

TokenSpec == TokenInit /\ [][TokenNext]_vars

\* chunkFixed on texts that hold a character outside the Basic Multilingual
\* Plane: U+1F600 is the code units D83D DE00 of a JavaScript string
UnicodeChars == {"a", "UD83D", "UDE00"}

UnicodeTexts == UNION { [ 1 .. n -> UnicodeChars ] : n \in 0 .. MaxLen }

UnicodeInit ==
    /\ InitLocals
    /\ strategy = "fixed"
    /\ text \in UnicodeTexts
    /\ config \in TextConfigs({ << >> })

UnicodeSpec == UnicodeInit /\ [][FixedNext]_vars

\* chunkFixed on the worked example of 15 characters and on what leads up
\* to it: its prefixes and the plain texts, every chunkSize and chunkOverlap
\* up to 5
ScenarioText ==
    << "A", "A", "A", "A", "A", "B", "B", "B", "B", "B",
       "C", "C", "C", "C", "C" >>

ScenarioTexts ==
    { SubSeq(ScenarioText, 1, n) : n \in 0 .. Len(ScenarioText) } \cup Texts

ScenarioConfigs ==
    { WithProvider(c, NoProvider) :
        c \in [ chunkSize : 0 .. 5, chunkOverlap : 0 .. 5,
                separators : { << >> } ] }

ScenarioInit ==
    /\ InitLocals
    /\ strategy = "fixed"
    /\ text \in ScenarioTexts
    /\ config \in ScenarioConfigs

ScenarioSpec == ScenarioInit /\ [][FixedNext]_vars

\* chunkRecursive alone: the runs of generateRecursiveChunks
RecursiveInit == InitLocals /\ InitRecursive

RecursiveNext ==
    \/ RecursiveStart
    \/ RecurseEmit
    \/ HardSplitStart
    \/ HardSplitIter
    \/ HardSplitReturn
    \/ RecurseSplit
    \/ RecurseSkip
    \/ PackStart
    \/ PackSegment
    \/ RecursiveReturn

RecursiveFairSpec ==
    RecursiveInit /\ [][RecursiveNext]_vars /\ WF_vars(RecursiveNext)

\* chunkRecursive on texts with two kinds of whitespace, a space and a line
\* feed, long enough for a blank chunk between two chunks that are not
WhitespaceChars == {"a", " ", "\n"}

WhitespaceTexts ==
    UNION { [ 1 .. n -> WhitespaceChars ] : n \in 0 .. MaxLen + 1 }

WhitespaceInit ==
    /\ InitLocals
    /\ strategy = "recursive"
    /\ text \in WhitespaceTexts
    /\ config \in TextConfigs({ << >>, << << " " >> >> })

WhitespaceSpec == WhitespaceInit /\ [][RecursiveNext]_vars

-----------------------------------------------------------------------------
(* Vocabulary of the properties *)

ChunkSize == config.chunkSize
ChunkOverlap == config.chunkOverlap

\* chunkSize >= 1, 0 <= chunkOverlap < chunkSize
ValidConfig == ChunkSize >= 1 /\ 0 <= ChunkOverlap /\ ChunkOverlap < ChunkSize

RECURSIVE Concat(_)
Concat(strs) == IF strs = << >> THEN << >> ELSE Head(strs) \o Concat(Tail(strs))

\* the contents in index order, every one after the first without its
\* first n characters
DropFirstOfLater(strs, n) ==
    Concat([ k \in 1 .. Len(strs) |->
               IF k = 1 THEN strs[k] ELSE SliceFrom(strs[k], n) ])

\* the contents in index order, every one after the first without the
\* overlap it declares: the last min(n, length) characters of its predecessor
DropDeclaredOverlap(strs, n) ==
    Concat([ k \in 1 .. Len(strs) |->
               IF k = 1 THEN strs[k]
               ELSE SliceFrom(strs[k], Min(n, Len(strs[k - 1]))) ])

FixedDone == Done /\ strategy = "fixed"
RecursiveDone == Done /\ strategy = "recursive"

-----------------------------------------------------------------------------
(* Fixed window *)

\* C2: round trip of chunkFixed: for a valid config, the contents in index
\* order, each one after the first without its first chunkOverlap
\* characters, concatenate to the input text.
Thm_C2_FixedRoundTrip ==
    (FixedDone /\ ValidConfig) =>
        DropFirstOfLater(Contents(chunks), ChunkOverlap) = text

\* a run with overlap, several chunks, and a last chunk shorter than the overlap
Wit_C2_FixedRoundTrip ==
    /\ FixedDone /\ ValidConfig
    /\ ChunkOverlap >= 2
    /\ Len(chunks) >= 3
    /\ chunks[Len(chunks)].length < ChunkOverlap

\* C3 as stated: for chunkSize >= 1 and chunkOverlap >= 0 every chunk but
\* the last has length exactly chunkSize, and the last at most chunkSize.
CX_C3_OnlyLastShort ==
    (FixedDone /\ ChunkSize >= 1 /\ ChunkOverlap >= 0) =>
        /\ \A k \in 1 .. Len(chunks) - 1 : chunks[k].length = ChunkSize
        /\ Len(chunks) > 0 => chunks[Len(chunks)].length <= ChunkSize

\* C3 as amended: every chunk has length at most chunkSize; a chunk is
\* shorter only when fewer than chunkSize characters remain from the
\* offset its content starts at, and with chunkOverlap = 0 only the last
\* chunk can be shorter.
Thm_C3_FixedSizeBudget ==
    (FixedDone /\ ChunkSize >= 1 /\ ChunkOverlap >= 0) =>
        /\ \A k \in 1 .. Len(chunks) : chunks[k].length <= ChunkSize
        /\ \A k \in 1 .. Len(chunks) :
              chunks[k].length < ChunkSize =>
                \E from \in 0 .. Len(text) - 1 :
                    /\ Len(text) - from < ChunkSize
                    /\ chunks[k].content = SubSeq(text, from + 1, Len(text))
        /\ ChunkOverlap = 0 =>
              \A k \in 1 .. Len(chunks) - 1 : chunks[k].length = ChunkSize

\* a run where a chunk before the last is already shorter than chunkSize
Wit_C3_FixedSizeBudget ==
    /\ FixedDone /\ ChunkSize >= 1
    /\ Len(chunks) >= 3
    /\ chunks[Len(chunks) - 1].length < ChunkSize

\* chunkSize >= 1 and chunkOverlap >= chunkSize: the overlap is clamped
ClampCase == strategy = "fixed" /\ ChunkSize >= 1 /\ ChunkOverlap >= ChunkSize

\* C8: overlap clamping of chunkFixed: with chunkSize >= 1 and
\* chunkOverlap >= chunkSize every iteration of the window loop advances
\* start by at least 1, the call returns, and the contents returned are
\* those returned for chunkOverlap = chunkSize - 1.
Thm_C8_OverlapClamp ==
    /\ [][(ClampCase /\ pc = "fixedLoop" /\ pc' = "fixedLoop")
              => start' >= start + 1]_vars
    /\ [](ClampCase /\ Done =>
             Contents(chunks) = FixedWindows(text, ChunkSize, ChunkSize - 1, 0))
    /\ (ClampCase /\ pc = "start") ~> Done

\* a clamped run that returned several chunks
Wit_C8_OverlapClamp ==
    /\ ClampCase /\ Done
    /\ ChunkOverlap > ChunkSize
    /\ ChunkSize >= 2
    /\ Len(chunks) >= 3

-----------------------------------------------------------------------------
(* Recursive splitting *)

\* C4: for chunkSize >= 1 and 0 <= chunkOverlap < chunkSize, any text and
\* any separator list, chunkRecursive returns.
Thm_C4_RecursiveTerminates ==
    (pc = "start" /\ strategy = "recursive" /\ ValidConfig) ~> Done

\* a returned run with an empty separator list whose hard-split loop ran
\* three times with a non-zero overlap
Wit_C4_RecursiveTerminates ==
    /\ RecursiveDone /\ ValidConfig
    /\ config.separators = << >>
    /\ ChunkOverlap >= 1
    /\ Len(rawSegments) >= 3

\* chunkSize <= 0 or chunkOverlap >= chunkSize
Degenerate == ChunkSize <= 0 \/ ChunkOverlap >= ChunkSize

\* C5 as stated: under a degenerate config every iteration of the
\* hard-split loop advances by at least 1 and the call returns.
CX_C5_HardSplitAdvances ==
    /\ [][(Degenerate /\ pc = "hard" /\ pc' = "hard") => i' >= i + 1]_vars
    /\ (Degenerate /\ pc = "hard") ~> Done

\* C6 as stated: for a non-empty text and a valid config, the contents of
\* chunkRecursive / chunkMarkdown in index order, each one after the first
\* without the overlap it repeats from its predecessor, concatenate to the
\* input text.
CX_C6_RecursiveReconstruction ==
    (Done /\ strategy \in {"recursive", "markdown"} /\ ValidConfig
          /\ text # << >>) =>
        DropDeclaredOverlap(Contents(chunks), ChunkOverlap) = text

\* C7 as stated: for a valid config every chunk of chunkRecursive has
\* length at most chunkSize.
CX_C7_RecursiveSizeBudget ==
    (RecursiveDone /\ ValidConfig) =>
        \A k \in 1 .. Len(chunks) : chunks[k].length <= ChunkSize

\* C9: every chunk chunkRecursive returns holds a character that is not
\* whitespace.
Thm_C9_NoBlankChunk ==
    RecursiveDone =>
        \A k \in 1 .. Len(chunks) :
            \E j \in 1 .. Len(chunks[k].content) :
                ~IsWhitespace(chunks[k].content[j])

\* a returned run that closed a whitespace-only unit and dropped it
Wit_C9_NoBlankChunk ==
    /\ RecursiveDone
    /\ Len(chunks) >= 1
    /\ \E k \in 1 .. Len(units) :
          Len(units[k]) > 0 /\ \A j \in 1 .. Len(units[k]) : IsWhitespace(units[k][j])

-----------------------------------------------------------------------------
(* All strategies *)

\* C1: the chunks a strategy returns carry the indices 0, 1, ..., n-1 in
\* emission order: the chunk at position k (from 1) has index k - 1.
Thm_C1_IndexContiguity ==
    Done => \A k \in 1 .. Len(chunks) : chunks[k].index = k - 1

\* generateJsonChunks returned, after the recursive chunker split an oversized
\* scalar into several chunks that were wrapped again
Wit_C1_IndexContiguity ==
    /\ Done /\ strategy = "json" /\ ret = "json"
    /\ Len(chunks) >= 2

-----------------------------------------------------------------------------
(* Structural JSON *)

\* every element (or key/value pair) of data alone is within the budget as
\* the batching loop counts it
EveryMemberFits ==
    \A k \in 1 .. Len(data.items) :
        (IF data.t = "obj" THEN ObjectBaseSize ELSE 0)
            + MemberSize(data, k) + ItemOverhead <= ChunkSize

\* C10 as stated: for a JSON array or object whose members each fit the
\* budget, every chunk of chunkJsonStructural has a content of at most
\* chunkSize characters.
CX_C10_JsonSizeBudget ==
    (Done /\ strategy = "json" /\ data.t \in {"arr", "obj"}
          /\ EveryMemberFits) =>
        \A k \in 1 .. Len(chunks) : chunks[k].length <= ChunkSize

\* generateJsonChunks returned for a text that JSON.parse rejects
FallbackDone == Done /\ strategy = "json" /\ ~JSONParse(text).ok

\* C11: invalid-JSON fallback: for a text that is not JSON,
\* chunkJsonStructural raises no error and returns the chunks chunkRecursive
\* returns for the same text and config: as many, and position by position
\* the same content, index, length and tokenCount.
Thm_C11_InvalidJsonFallback ==
    FallbackDone =>
        LET expected == generateRecursiveChunks(text, config)
        IN  /\ error = "none"
            /\ Len(chunks) = Len(expected)
            /\ \A k \in 1 .. Len(chunks) :
                   /\ chunks[k].content = expected[k].content
                   /\ chunks[k].index = expected[k].index
                   /\ chunks[k].length = expected[k].length
                   /\ chunks[k].tokenCount = expected[k].tokenCount

\* the fallback returned several chunks of a text that is over the budget,
\* a text that trimming would change
Wit_C11_InvalidJsonFallback ==
    /\ FallbackDone
    /\ Len(text) > ChunkSize
    /\ Len(chunks) >= 2
    /\ Trim(text) # text

-----------------------------------------------------------------------------
(* Fixed window: the worked example and the reference definition *)

\* generateFixedSizeChunks returned for the text of 15 characters with
\* chunkSize 5 and the given chunkOverlap
ScenarioDone(chunkOverlap) ==
    /\ FixedDone
    /\ text = ScenarioText
    /\ ChunkSize = 5 /\ ChunkOverlap = chunkOverlap

\* the offsets of the windows of the worked example, in order
ScenarioOffsets == << 0, 3, 6, 9, 12 >>

\* the content of every chunk of the worked example is the window of 5
\* characters (or what is left of the text) at its offset
WindowsAtOffsets ==
    \A k \in 1 .. Len(chunks) :
        chunks[k].content =
            SubSeq(text, ScenarioOffsets[k] + 1,
                   Min(ScenarioOffsets[k] + 5, Len(text)))

\* C13 as stated: chunkFixed on "AAAAABBBBBCCCCC" with chunkSize 5 and
\* chunkOverlap 2 takes its windows at the offsets 0, 3, 6, 9, 12 and
\* returns "AAAAA", "AABBB", "BBBCC", "CCCCC", "CC".
CX_C13_StatedContents ==
    ScenarioDone(2) =>
        /\ Len(chunks) = Len(ScenarioOffsets)
        /\ Contents(chunks) =
              << << "A", "A", "A", "A", "A" >>,
                 << "A", "A", "B", "B", "B" >>,
                 << "B", "B", "B", "C", "C" >>,
                 << "C", "C", "C", "C", "C" >>,
                 << "C", "C" >> >>

\* C13, amended: chunkFixed on "AAAAABBBBBCCCCC" with chunkSize 5 and
\* chunkOverlap 2 takes its windows at the offsets 0, 3, 6, 9, 12 and
\* returns "AAAAA", "AABBB", "BBBBC", "BCCCC", "CCC".
Thm_C13_FixedExample ==
    ScenarioDone(2) =>
        /\ Len(chunks) = Len(ScenarioOffsets)
        /\ WindowsAtOffsets
        /\ Contents(chunks) =
              << << "A", "A", "A", "A", "A" >>,
                 << "A", "A", "B", "B", "B" >>,
                 << "B", "B", "B", "B", "C" >>,
                 << "B", "C", "C", "C", "C" >>,
                 << "C", "C", "C" >> >>

\* the run of the worked example has returned its five chunks
Wit_C13_FixedExample == ScenarioDone(2) /\ Len(chunks) = 5

\* the least n with n * step >= len, for step >= 1
CeilDiv(len, step) ==
    CHOOSE n \in 0 .. len : n * step >= len /\ (n - 1) * step < len

\* C19: chunkFixed is its reference definition: no chunk when chunkSize <= 0
\* or the text is empty; otherwise, with step = chunkSize -
\* min(chunkOverlap, chunkSize - 1), exactly ceil(len / step) chunks, chunk
\* k (from 0) with index k and the content text[k * step, min(k * step +
\* chunkSize, len)).
Thm_C19_FixedReference ==
    FixedDone =>
        IF ChunkSize <= 0 \/ text = << >>
        THEN chunks = << >>
        ELSE LET step == ChunkSize - Min(ChunkOverlap, ChunkSize - 1)
                 n    == CeilDiv(Len(text), step)
             IN  /\ Len(chunks) = n
                 /\ \A k \in 0 .. n - 1 :
                        /\ chunks[k + 1].index = k
                        /\ chunks[k + 1].content =
                              SubSeq(text, k * step + 1,
                                     Min(k * step + ChunkSize, Len(text)))

\* the 15 characters with chunkSize 5 and no overlap came back as three
\* chunks of 5 with the indices 0, 1, 2
Wit_C19_FixedReference ==
    /\ ScenarioDone(0)
    /\ Contents(chunks) = << << "A", "A", "A", "A", "A" >>,
                             << "B", "B", "B", "B", "B" >>,
                             << "C", "C", "C", "C", "C" >> >>
    /\ \A k \in 1 .. 3 : chunks[k].index = k - 1

-----------------------------------------------------------------------------
(* Structural JSON: batches of one element *)

\* the serialization of element k of the array data
ItemStr(k) == JSONStringify(data.items[k])

\* the budget holds any one element and its overhead of 2 characters, but
\* no two consecutive elements with theirs
HoldsOneNotTwo ==
    /\ \A k \in 1 .. Len(data.items) : Len(ItemStr(k)) + 2 <= ChunkSize
    /\ \A k \in 1 .. Len(data.items) - 1 :
           Len(ItemStr(k)) + 2 + Len(ItemStr(k + 1)) + 2 > ChunkSize

\* generateJsonChunks returned for an array that is over the budget as a
\* whole
OneElementCase ==
    /\ Done /\ strategy = "json" /\ data.t = "arr"
    /\ Len(JSONStringify(data)) > ChunkSize
    /\ HoldsOneNotTwo

\* C14: JSON batch integrity: for an array whose serialization is over
\* chunkSize while chunkSize holds one element and its overhead but not two
\* consecutive ones, there is one chunk per element, in the order of the
\* array, and each chunk parses to the array of just that element.
Thm_C14_JsonBatchIntegrity ==
    OneElementCase =>
        /\ Len(chunks) = Len(data.items)
        /\ \A k \in 1 .. Len(chunks) :
               LET parsed == JSONParse(chunks[k].content)
               IN  /\ parsed.ok
                   /\ parsed.value = Arr(<< data.items[k] >>)

\* an array of unlike elements came back as one chunk per element
Wit_C14_JsonBatchIntegrity ==
    /\ OneElementCase
    /\ Len(data.items) >= 2
    /\ data.items[1] # data.items[2]

-----------------------------------------------------------------------------
(* Token estimate *)

\* the characters of s in the ranges of cjkRegex
CjkPositions(s) == { k \in 1 .. Len(s) : IsCJK(s[k]) }

\* the characters of s outside them
OtherPositions(s) == (1 .. Len(s)) \ CjkPositions(s)

\* the least integer that is at least n / 4
Ceil4(n) == CHOOSE q \in 0 .. n : 4 * q >= n /\ 4 * (q - 1) < n

TokenFormula(s) ==
    Cardinality(CjkPositions(s)) + Ceil4(Cardinality(OtherPositions(s)))

EstimateDone == strategy = "estimate" /\ Done

\* C15: token heuristic: estimateTokenCount(text) is the number of
\* characters of text in the CJK ranges plus the ceiling of a quarter of the
\* number of the other characters; it is a non-negative integer, 0 for the
\* empty text, 2 for two CJK characters and 1 for "abcd" and for "abc".
Thm_C15_TokenHeuristic ==
    EstimateDone =>
        /\ tokens = TokenFormula(text)
        /\ tokens \in Nat
        /\ text = << >> => tokens = 0
        /\ text = << "U4E2D", "U6587" >> => tokens = 2
        /\ text = << "a", "b", "c", "d" >> => tokens = 1
        /\ text = << "a", "b", "c" >> => tokens = 1

\* the estimate of a text of one CJK character and three others, which
\* round up to one token
Wit_C15_TokenHeuristic ==
    /\ EstimateDone
    /\ Cardinality(CjkPositions(text)) = 1
    /\ Cardinality(OtherPositions(text)) = 3
    /\ tokens = 2

-----------------------------------------------------------------------------
(* The length field *)

IsHighSurrogate(c) == c \in {"UD83D"}
IsLowSurrogate(c) == c \in {"UDE00"}

\* the positions of s where a surrogate pair begins
PairPositions(s) ==
    { k \in 1 .. Len(s) - 1 :
        IsHighSurrogate(s[k]) /\ IsLowSurrogate(s[k + 1]) }

\* the number of code points of s: a surrogate pair is one, every other
\* code unit is one
CodePoints(s) == Len(s) - Cardinality(PairPositions(s))

\* C16 as stated: the length of every chunk returned is the number of code
\* points of its content (a character outside the Basic Multilingual Plane
\* counts as one), not of its UTF-16 code units.
CX_C16_LengthInCodePoints ==
    Done => \A k \in 1 .. Len(chunks) :
                chunks[k].length = CodePoints(chunks[k].content)

-----------------------------------------------------------------------------
(* The tokenCount field *)

\* C17: the tokenCount of every chunk a strategy returns is
\* estimateTokenCount of the content that chunk ends up with, and a
\* non-negative integer.
Thm_C17_TokenCountOfContent ==
    Done => \A k \in 1 .. Len(chunks) :
                /\ chunks[k].tokenCount = estimateTokenCount(chunks[k].content)
                /\ chunks[k].tokenCount = TokenFormula(chunks[k].content)
                /\ chunks[k].tokenCount \in Nat

\* a chunk with a CJK character and a letter came back with its two tokens
Wit_C17_TokenCountOfContent ==
    /\ Done /\ strategy = "semantic"
    /\ \E k \in 1 .. Len(chunks) :
           /\ CjkPositions(chunks[k].content) # {}
           /\ OtherPositions(chunks[k].content) # {}
           /\ chunks[k].tokenCount = 2

-----------------------------------------------------------------------------
(* Recursive, Phase A *)

\* recurse(text, separators) has returned: rawSegments is complete
PhaseADone == pc = "pack" /\ segPos = 1

\* C20: Phase A loses no characters: with chunkSize >= 1 and chunkOverlap
\* = 0, whatever the separators, the raw segments concatenated in the order
\* they were pushed are the text handed to the chunker.
Thm_C20_PhaseAKeepsText ==
    (PhaseADone /\ ChunkSize >= 1 /\ ChunkOverlap = 0) =>
        Concat(rawSegments) = recText

\* Phase A ended after it split the text at its first separator and pushed
\* two segments in a row that hold none, the first of them of full size
Wit_C20_PhaseAKeepsText ==
    /\ PhaseADone /\ strategy = "recursive"
    /\ ChunkSize >= 1 /\ ChunkOverlap = 0
    /\ Len(config.separators) >= 1
    /\ Includes(text, config.separators[1])
    /\ \E k \in 1 .. Len(rawSegments) - 1 :
           /\ ~Includes(rawSegments[k], config.separators[1])
           /\ ~Includes(rawSegments[k + 1], config.separators[1])
           /\ Len(rawSegments[k]) = ChunkSize

-----------------------------------------------------------------------------
(* Recursive, Phase A: nesting *)

\* a step that replaces the running call of recurse by the calls it makes
RecursiveCall ==
    /\ pc = "recurse" /\ pc' = "recurse"
    /\ stack # << >>
    /\ Len(stack') >= Len(stack)
    /\ rawSegments' = rawSegments

\* the calls made by the step: what is on the stack in front of the
\* caller's pending siblings
Callees == SubSeq(stack', 1, Len(stack') - Len(stack) + 1)

\* C21: every call recurse makes gets a separator list strictly shorter
\* than its caller's, one level deeper, whether the separator was found or
\* skipped, so no call is nested deeper than len(separators) + 1.
Thm_C21_RecursionDepth ==
    /\ [][RecursiveCall =>
            \A k \in 1 .. Len(Callees) :
                /\ Len(Callees[k].seps) < Len(Top.seps)
                /\ Callees[k].depth = Top.depth + 1]_vars
    /\ [](\A k \in 1 .. Len(stack) :
             /\ stack[k].depth <= Len(config.separators) + 1
             /\ stack[k].depth + Len(stack[k].seps)
                  = Len(config.separators) + 1)

\* a call at the deepest level: both separators were skipped and the list
\* is used up
Wit_C21_RecursionDepth ==
    /\ pc = "recurse" /\ stack # << >>
    /\ ValidConfig
    /\ Len(config.separators) >= 2
    /\ Top.depth = Len(config.separators) + 1
    /\ Top.txt = text

-----------------------------------------------------------------------------
(* Recursive: the overlap between neighbours *)

\* the last n characters of s (all of s when it has fewer)
Trailing(s, n) == SliceFrom(s, Max(0, Len(s) - n))

\* later begins with the last min(n, len(earlier)) characters of earlier
BeginsWithOverlap(later, earlier, n) ==
    LET m == Min(n, Len(earlier))
    IN  /\ Len(later) >= m
        /\ SubSeq(later, 1, m) = Trailing(earlier, m)

\* C22 as stated: for chunkSize >= 1 and 0 <= chunkOverlap < chunkSize,
\* every chunk chunkRecursive returns after the first begins with the
\* trailing min(chunkOverlap, len(previous)) characters of the chunk
\* returned immediately before it.
CX_C22_DeclaredOverlap ==
    (RecursiveDone /\ ValidConfig) =>
        \A k \in 2 .. Len(chunks) :
            BeginsWithOverlap(chunks[k].content, chunks[k - 1].content,
                              ChunkOverlap)

-----------------------------------------------------------------------------
(* Structural JSON: the units of a batched document *)

\* generateJsonChunks returned for an array or object that is over the
\* budget as a whole
BatchedDone ==
    /\ Done /\ strategy = "json" /\ data.t \in {"arr", "obj"}
    /\ Len(JSONStringify(data)) > ChunkSize

\* what the content of chunk k parses to
ParsedChunk(k) == JSONParse(chunks[k].content)

\* the elements (keys) of the chunks from chunk k on, in index order
RECURSIVE ItemsFrom(_)
ItemsFrom(k) ==
    IF k > Len(chunks) THEN << >>
    ELSE ParsedChunk(k).value.items \o ItemsFrom(k + 1)

RECURSIVE KeysFrom(_)
KeysFrom(k) ==
    IF k > Len(chunks) THEN << >>
    ELSE ParsedChunk(k).value.keys \o KeysFrom(k + 1)

\* member j of the value v is over the budget on its own
Oversized(v, j) ==
    (IF v.t = "obj" THEN Len(PropStr(v.keys[j], v.items[j]))
                    ELSE Len(JSONStringify(v.items[j]))) > ChunkSize

\* C23 as stated: for an array (object) whose serialization is over
\* chunkSize every chunk parses to a non-empty array (object), the
\* elements (key/value pairs) of the chunks in index order are those of the
\* document in their order, each whole and once, and an element over the
\* budget is alone in its chunk.
CX_C23_JsonUnitsPreserved ==
    BatchedDone =>
        /\ \A k \in 1 .. Len(chunks) :
               /\ ParsedChunk(k).ok
               /\ ParsedChunk(k).value.t = data.t
               /\ Len(ParsedChunk(k).value.items) >= 1
               /\ \A j \in 1 .. Len(ParsedChunk(k).value.items) :
                      Oversized(ParsedChunk(k).value, j)
                          => Len(ParsedChunk(k).value.items) = 1
        /\ ItemsFrom(1) = JSONParse(text).value.items
        /\ KeysFrom(1) = JSONParse(text).value.keys

-----------------------------------------------------------------------------
(* Recursive: the upper bound on a chunk *)

\* C24: for chunkSize >= 1 and 0 <= chunkOverlap < chunkSize, every raw
\* segment Phase A pushes has at most chunkSize characters and every chunk
\* chunkRecursive returns has at most chunkSize + chunkOverlap.
Thm_C24_RecursiveUpperBound ==
    (strategy = "recursive" /\ ValidConfig) =>
        /\ \A k \in 1 .. Len(rawSegments) :
               Len(rawSegments[k]) <= ChunkSize
        /\ Done => \A k \in 1 .. Len(chunks) :
                       chunks[k].length <= ChunkSize + ChunkOverlap

\* a returned chunk that is over chunkSize and reaches the bound: a full
\* segment behind the overlap carried from the chunk before
Wit_C24_RecursiveUpperBound ==
    /\ RecursiveDone /\ ValidConfig
    /\ ChunkOverlap >= 1
    /\ \E k \in 2 .. Len(chunks) :
           chunks[k].length = ChunkSize + ChunkOverlap
    /\ \E k \in 1 .. Len(rawSegments) : Len(rawSegments[k]) = ChunkSize

-----------------------------------------------------------------------------
(* Semantic *)

\* generateSemanticChunks has returned or thrown
SemanticEnded == strategy = "semantic" /\ pc \in {"done", "thrown"}

\* a credential is missing, the request is rejected or answered with a
\* status that is not OK, or the response text is empty or not JSON
NoPayload ==
    \/ ~CredentialsPresent
    \/ ~resp.ok
    \/ resp.body # "json"

\* the payload is JSON but not an array of strings
NotStrings == resp.body = "json" /\ ~IsStringArray(resp.value)

\* the payload is the empty array
EmptyArray == resp.body = "json" /\ resp.value = Arr(<< >>)

\* C12 as stated: missing credentials, a status that is not OK, a payload
\* that is not a JSON array of strings and an empty result (empty response
\* text or empty array) each end generateSemanticChunks in one thrown
\* failure and never in a chunk sequence.
CX_C12_SemanticFailures ==
    (SemanticEnded /\ (NoPayload \/ NotStrings \/ EmptyArray)) =>
        (pc = "thrown" /\ error # "none" /\ chunks = << >>)

\* the strings of the payload, in order
PayloadStrings ==
    [ k \in 1 .. Len(resp.value.items) |-> resp.value.items[k].s ]

\* C18: a failed run is all or nothing: generateSemanticChunks returns a
\* chunk for every string of the payload or throws without a chunk, and
\* the list the application displays changes only when a run has returned,
\* to what it returned: a run that throws leaves it as it was.
Thm_C18_FailedRunKeepsList ==
    [][ /\ (strategy = "semantic" /\ pc' = "done")
            => Contents(chunks') = PayloadStrings'
        /\ pc' = "thrown" => chunks' = << >>
        /\ pc = "thrown" => appChunks' = appChunks
        /\ appChunks' # appChunks => (pc = "done" /\ appChunks' = chunks)
      ]_vars

\* a run has thrown and been reported, and the list of an earlier run is
\* still on display
Wit_C18_FailedRunKeepsList ==
    /\ pc = "alerted"
    /\ error # "none"
    /\ appChunks # << >>
    /\ ~loading

=============================================================================
